---- MODULE Spec2Model ----
(***************************************************************************)
(* Bed inventory, booking records and the Trig audit log of the emergency  *)
(* bed booking application.                                                *)
(*                                                                         *)
(* The three tables (Hospitaldata, Bookingpatient, Trig) are shared by the *)
(* request handlers.  Every request runs in its own thread with its own    *)
(* SQLAlchemy session: a query loads a row into the session (a snapshot),  *)
(* later attribute reads use the loaded values, and a commit writes the    *)
(* modified columns.  A handler is therefore a sequence of steps, one per  *)
(* database round trip that other requests can interleave with.            *)
(*                                                                         *)
(* Handlers modelled:                                                      *)
(*   slotbookig   project/main.py            (route "main")                *)
(*   slotbooking  project/enhanced_main.py   (route "enhanced")            *)
(*   hospital_bed_update -> _broadcast_bed_update                          *)
(*                project/services/realtime_service.py (route "staff")     *)
(*   trigers      project/main.py            (read of the audit log)       *)
(*   addhospitalinfo, hedit, hdelete  project/main.py (hospital data)      *)
(*   api_update_booking_status  project/services/api_service.py            *)
(*   APIRateLimiter.is_allowed  project/services/api_service.py            *)
(*   login, security_checks     project/enhanced_main.py, with             *)
(*                track_login_attempt, validate_session and                *)
(*                update_session_activity of services/security_service.py  *)
(*   verify_backup_code, verify_password_reset_token                       *)
(*                project/services/auth_service.py                         *)
(*   SecurityService.check_rate_limit  services/security_service.py        *)
(*   handle_connect, handle_disconnect, get_connected_users_count          *)
(*                project/services/realtime_service.py                     *)
(*                                                                         *)
(* A try/except block is modelled with both of its exits: the block runs   *)
(* to its commit, or an exception reaches the handler before the commit.   *)
(* The except exit is the one taken when the Bookingpatient constructor of *)
(* slotbooking is handed a key of form.data that is no column (form_token, *)
(* forms/secure_forms.py:23), and when the import of the models from       *)
(* project.main inside _update_hospital_beds fails.                        *)
(*                                                                         *)
(* The login handler is two steps: the lockout check in Redis, then the    *)
(* credentials and the bookkeeping.  Redis is taken to answer every        *)
(* command; the flask-limiter limits and the remember-me cookie are left   *)
(* out.  Times of the login and session model are in units of 15 minutes,  *)
(* the limits of the rate limiters are scaled down.  A service call that   *)
(* issues two Redis commands is two steps.                                 *)
(***************************************************************************)
EXTENDS Integers, Sequences, FiniteSets, TLC

(* ---------------------------- bounds ---------------------------------- *)
MaxRequests == 2          \* requests started in one behaviour
MaxCount == 1             \* largest 'count' a staff update carries
MaxTime == 3              \* the clock runs from 0 to MaxTime
MaxCalls == 4             \* calls of APIRateLimiter.is_allowed in one behaviour
MaxSubmissions == 3       \* login forms submitted in one behaviour

(* ---------------------------- constants -------------------------------- *)
Procs == {"t1", "t2"}     \* request-handling threads
None == "None"            \* Python None
NoRow == 0                \* first() found no row (row ids start at 1)
NULL == "NULL"            \* SQL NULL of a column that was not set

BedFields == {"normalbed", "hicubed", "icubed", "vbed"}

\* hospital codes a request can name; GHOST has no Hospitaldata row
HCodes == {"HOSP1", "HOSP2", "GHOST"}
\* the email field of a booking form; None when the form carries no email
EmailInputs == {"a@x.org", None}

\* bedtype values the requests of a behaviour carry: two of the names
\* slotbookig knows, two of the choices of BedBookingForm, and one that
\* neither route knows
BedTypeInputs == {"NormalBed", "ICUBed", "Normal", "ICU", "Oxygen"}

\* validate_bed_booking, line 296
valid_bed_types == {"Normal", "HICU", "ICU", "Ventilator"}

\* hcode of the hospital users that send staff events: one whose hospital
\* has a Hospitaldata row and one whose hospital has none
StaffHCodes == {"HOSP1", "GHOST"}

\* update_data the staff events of a behaviour carry
RtBedTypeInputs == {"icu", "oxygen"}
RtActionInputs == {"increase", "decrease", "set", "reset"}
RtCountInputs == (0 - 1)..MaxCount

\* hospital data forms of main.py: the codes typed into the hcode field, the
\* ids of the /hedit/<id> and /hdelete/<id> urls, the bed counts submitted
HCodeFormInputs == {"HOSP1", "hosp2", "GHOST", "NOUSR"}
IdInputs == 1..3
BedFormInputs ==
    {[normalbed |-> 0, hicubed |-> 0, icubed |-> 0, vbed |-> 0],
     [normalbed |-> 1, hicubed |-> 0, icubed |-> 1, vbed |-> 1]}
\* the hospital codes that have a Hospitaluser row
Hospitaluser == {"HOSP1", "HOSP2", "GHOST"}

\* PUT /api/v1/bookings/<booking_id>/status: the ids named in the url (the
\* ids of the Bookingpatient rows a behaviour can store) and the 'status'
\* values of the body
BookingIdInputs == 1..MaxRequests
StatusInputs == {"confirmed", "cancelled", "released"}
valid_statuses == {"pending", "confirmed", "arrived", "admitted",
                   "discharged", "cancelled"}

\* APIRateLimiter: the clients (request.remote_addr or "user_<id>") and the
\* endpoint types the routes of api_service.py pass to rate_limit
ClientIds == {"10.0.0.1", "user_1"}
EndpointTypes == {"default", "auth", "analytics"}

\* login and sessions of enhanced_main.py.  Times are counted in units of
\* 15 minutes.
MAX_LOGIN_ATTEMPTS == 5        \* config/secure_config.py:31
ACCOUNT_LOCKOUT_MINUTES == 1   \* 15 minutes, config/secure_config.py:32
SESSION_TIMEOUT_MINUTES == 2   \* 30 minutes, config/secure_config.py:30
ATTEMPTS_EXPIRE == 4           \* 3600 s, security_service.py:136
NoUser == 0                    \* no user id under a session key
NoTime == 0 - 1                \* no last_activity in the session
\* what a login form carries: the address as typed, whether the password
\* is the user's, the MFA code (none, the current one, another one), and
\* the fingerprint of the browser and address the request comes from
LoginEmailInputs == {"a@x.org", "A@x.org", "b@x.org"}
\* what the account recovery of auth_service is called with: user ids and
\* backup codes (one code was never issued), reset tokens (one was never
\* issued); a reset token lives 3600 s
UserIdInputs == {"1", "2"}
BackupCodeInputs == {"1111-2222", "3333-4444", "0000-0000"}
ResetTokenInputs == {"tokA", "tokB", "tokX"}
RESET_TOKEN_EXPIRE == 4        \* 3600 s, auth_service.py:194
\* the identifiers the rate_limit decorator builds from the address and
\* the endpoint, and the limit and the window check_rate_limit is called
\* with (60 requests in 60 s in the code; here times are seconds)
\* the socket connections and who connects: nobody logged in, the
\* patient, the administrator, the user of a hospital (User.user_type and
\* Hospitaluser.user_type, enhanced_main.py:104-106, 135-137)
Sids == {"sid1", "sid2", "sid3", "sid4"}
Anonymous == [is_authenticated |-> FALSE, id |-> None, user_type |-> None,
              hcode |-> None]
SocketUsers ==
    {Anonymous,
     [is_authenticated |-> TRUE, id |-> "1", user_type |-> "patient",
      hcode |-> None],
     [is_authenticated |-> TRUE, id |-> "2", user_type |-> "admin",
      hcode |-> None],
     [is_authenticated |-> TRUE, id |-> "1", user_type |-> "hospital",
      hcode |-> "HOSP1"]}
RateIdentifiers == {"rate_limit:10.0.0.1:login", "rate_limit:10.0.0.2:login"}
RATE_LIMIT == 2                \* requests_per_minute, security_service.py:292
RATE_WINDOW == 2               \* window, security_service.py:82
PasswordInputs == {"right", "wrong"}
MfaTokenInputs == {None, "valid", "invalid"}
Fingerprints == {"fp1", "fp2"}
PageRoutes == {"index", "slotbooking"}
\* the session keys Flask-Login keeps the user id under: 'user_id' before
\* release 0.5, '_user_id' since
LoginKeys == {"user_id", "_user_id"}
\* a session without keys, and "no User row"
NoSession == [user_id |-> NoUser, _user_id |-> NoUser,
              last_activity |-> NoTime, fingerprint |-> None]
NoUserRow == [id |-> NoUser]

VARIABLES
    Hospitaldata,     \* table: id -> row
    Bookingpatient,   \* table: sequence of booking rows, in insertion order
    Trig,             \* table: sequence of audit rows, in insertion order
    pc,               \* per thread: position in its handler
    req,              \* per thread: the request it is handling
    hospital,         \* per thread: the Hospitaldata row loaded in its session
    last,             \* the request answered last and its response
    nreq,             \* requests started so far
    now,              \* the clock (datetime.now())
    requests,         \* APIRateLimiter.requests: client id -> timestamps
    calls,            \* history: the calls of a service and their results
    redis,            \* the attempts and lockout keys of the login identifiers
    users,            \* table User: email -> row
    session,          \* the session of the client's browser
    login_key,        \* the session key of the installed Flask-Login
    wrong,            \* history: wrong-credential submissions per
                      \* identifier since its last successful login
    realtime_service  \* RealTimeService: connected_users, hospital_rooms

vars == <<Hospitaldata, Bookingpatient, Trig, pc, req, hospital, last, nreq,
          now, requests, calls, redis, users, session, login_key,
          realtime_service, wrong>>
tables == <<Hospitaldata, Bookingpatient, Trig>>
\* what a request handler of the booking applications works on, and the
\* state of the services beside them
handlers == <<pc, req, hospital, last, nreq>>
services == <<now, requests, calls, redis, users, session, login_key,
              realtime_service, wrong>>

(* ----------------------------- tables ---------------------------------- *)
\* the database the behaviours start from: all counters >= 0
InitHospitaldata ==
    (1 :> [hcode |-> "HOSP1", normalbed |-> 1, hicubed |-> 0, icubed |-> 2,
           vbed |-> 1, is_verified |-> TRUE])
    @@
    (2 :> [hcode |-> "HOSP2", normalbed |-> 0, hicubed |-> 1, icubed |-> 1,
           vbed |-> 0, is_verified |-> FALSE])

\* the rows that filter_by(hcode=code) selects
RowIds(code) == {i \in DOMAIN Hospitaldata : Hospitaldata[i].hcode = code}

\* FilterByHcode with the filter lost: Hospitaldata.query.first()
FilterByHcode_unfiltered(code) ==
    IF DOMAIN Hospitaldata = {} THEN NoRow
    ELSE CHOOSE i \in DOMAIN Hospitaldata : \A j \in DOMAIN Hospitaldata : i <= j

\* Hospitaldata.query.filter_by(hcode=code).first(): the row id, or NoRow
FilterByHcode(code) ==
    IF RowIds(code) = {} THEN NoRow
    ELSE CHOOSE i \in RowIds(code) : \A j \in RowIds(code) : i <= j

\* what a session holds after loading row i, and before any load
Load(i) == [id |-> i, row |-> Hospitaldata[i]]
NotLoaded == [id |-> NoRow]

NoReq == [route |-> None, hcode |-> None, bedtype |-> None, email |-> None,
          action |-> None, count |-> 0]

(* ------------------------ bed type dispatch ----------------------------- *)
\* MainBedField with a final else that books a normal bed
MainBedField_default(bedtype) ==
    CASE bedtype = "HICUBed" -> "hicubed"
      [] bedtype = "ICUBed" -> "icubed"
      [] bedtype = "VENTILATORBed" -> "vbed"
      [] OTHER -> "normalbed"

\* the if/elif chain of slotbookig; None is the final 'else: pass'
MainBedField(bedtype) ==
    CASE bedtype = "NormalBed" -> "normalbed"
      [] bedtype = "HICUBed" -> "hicubed"
      [] bedtype = "ICUBed" -> "icubed"
      [] bedtype = "VENTILATORBed" -> "vbed"
      [] OTHER -> None

\* the if/elif chains of slotbooking; None when no branch matches
EnhBedField(bed_type) ==
    CASE bed_type = "Normal" -> "normalbed"
      [] bed_type = "HICU" -> "hicubed"
      [] bed_type = "ICU" -> "icubed"
      [] bed_type = "Ventilator" -> "vbed"
      [] OTHER -> None

\* bed_type.lower()
Lower(bed_type) ==
    CASE bed_type = "Normal" -> "normal"
      [] bed_type = "HICU" -> "hicu"
      [] bed_type = "ICU" -> "icu"
      [] bed_type = "Ventilator" -> "ventilator"
      [] OTHER -> bed_type

\* bed_field_map of _update_hospital_beds
bed_field_map(bed_type) ==
    CASE bed_type = "normal" -> "normalbed"
      [] bed_type = "hicu" -> "hicubed"
      [] bed_type = "icu" -> "icubed"
      [] bed_type = "ventilator" -> "vbed"

Max(a, b) == IF a >= b THEN a ELSE b

\* a response: the flashed message and the form fields that carry an error
Resp(msg) == [msg |-> msg, fields |-> {}]
FormErrors(fields) == [msg |-> "form errors", fields |-> fields]

\* the backup codes generate_backup_codes has stored for the users (the
\* set backup_codes:<user_id>), and the reset tokens that
\* generate_password_reset_token has stored (reset_token:<token>, with the
\* time its hour ends): one issued half an hour before the start, one at
\* the start
InitBackupCodes ==
    [user_id \in UserIdInputs |->
        IF user_id = "1" THEN {"1111-2222", "3333-4444"} ELSE {"1111-2222"}]
NoToken == [email |-> None, expiry |-> 0]
InitResetTokens ==
    [token \in ResetTokenInputs |->
        IF token = "tokA" THEN [email |-> "a@x.org", expiry |-> 2]
        ELSE IF token = "tokB"
        THEN [email |-> "b@x.org", expiry |-> RESET_TOKEN_EXPIRE]
        ELSE NoToken]

\* a sorted set that does not exist: no members, no time to live
NoKey == [members |-> {}, expiry |-> 0]

\* the login identifiers, the User table with its one user, the store
\* without login attempts
Identifiers == {"a@x.org", "b@x.org"}
InitUsers(mfa_enabled) ==
    [email \in {"a@x.org"} |->
        [id |-> 1, failed_login_attempts |-> 0, account_locked_until |-> 0,
         mfa_enabled |-> mfa_enabled]]
InitRedis ==
    [attempts |-> [i \in Identifiers |-> 0],
     attempts_expiry |-> [i \in Identifiers |-> 0],
     lockout |-> [i \in Identifiers |-> 0],
     backup_codes |-> InitBackupCodes,
     reset_token |-> InitResetTokens,
     rate_limit |-> [i \in RateIdentifiers |-> NoKey]]

InitBase ==
    /\ Hospitaldata = InitHospitaldata
    /\ Bookingpatient = << >>
    /\ Trig = << >>
    /\ pc = [p \in Procs |-> "idle"]
    /\ req = [p \in Procs |-> NoReq]
    /\ hospital = [p \in Procs |-> NotLoaded]
    /\ last = [req |-> NoReq, resp |-> Resp(None)]
    /\ nreq = 0
    /\ now = 0
    /\ requests = [client_id \in ClientIds |-> << >>]
    /\ calls = << >>
    /\ redis = InitRedis
    /\ session = NoSession
    /\ wrong = [i \in Identifiers |-> 0]
    /\ realtime_service = [connected_users |-> [sid \in {} |-> None],
                           hospital_rooms |-> [sid \in {} |-> None]]

Init ==
    /\ InitBase
    /\ users = InitUsers(FALSE)
    /\ login_key = "_user_id"

\* the start of the login behaviours: with or without MFA for the user,
\* under either Flask-Login
InitAuth ==
    /\ InitBase
    /\ \E mfa_enabled \in BOOLEAN : users = InitUsers(mfa_enabled)
    /\ login_key \in LoginKeys

\* a thread accepts a request
Start(p) ==
    /\ pc[p] = "idle"
    /\ nreq < MaxRequests
    /\ nreq' = nreq + 1

\* the handler of request r returns its response
Finish(p, r, result) ==
    /\ pc' = [pc EXCEPT ![p] = "idle"]
    /\ req' = [req EXCEPT ![p] = NoReq]
    /\ hospital' = [hospital EXCEPT ![p] = NotLoaded]
    /\ last' = [req |-> r, resp |-> result]
    /\ UNCHANGED services

\* the handler of request r goes on to its next database round trip
Goto(p, label, r, loaded) ==
    /\ pc' = [pc EXCEPT ![p] = label]
    /\ req' = [req EXCEPT ![p] = r]
    /\ hospital' = [hospital EXCEPT ![p] = loaded]
    /\ UNCHANGED last
    /\ UNCHANGED services

\* UPDATE hospitaldata SET <field> = value WHERE id = i (no row: no effect)
UpdateField(i, field, value) ==
    IF i \in DOMAIN Hospitaldata
    THEN [Hospitaldata EXCEPT ![i][field] = value]
    ELSE Hospitaldata

\* AddTrig as an upsert: the latest row is overwritten (session.merge)
AddTrig_merge(entry) ==
    IF Trig = << >> THEN << entry >>
    ELSE [Trig EXCEPT ![Len(Trig)] = entry]

\* db.session.add(row) of a Trig row, written by the next commit
AddTrig(entry) == Append(Trig, entry)

\* CommitField writing every column of the loaded row, not only the
\* assigned one
CommitField_row(loaded, field, value) ==
    IF loaded.id \in DOMAIN Hospitaldata
    THEN [Hospitaldata EXCEPT ![loaded.id] = [loaded.row EXCEPT ![field] = value]]
    ELSE Hospitaldata

\* commit of a session in which <field> of the loaded row was assigned: the
\* unit of work writes the column when the assigned value differs from the
\* loaded one, and only that column
CommitField(loaded, field, value) ==
    IF value = loaded.row[field]
    THEN Hospitaldata
    ELSE UpdateField(loaded.id, field, value)

(* ------------------- main.py: slotbookig (POST) ------------------------- *)
\* Bookingpatient.query.filter_by(email=email).first(): with email None the
\* filter is "email IS NULL"
checkpatient(email) ==
    \E k \in 1..Len(Bookingpatient) :
        Bookingpatient[k].email = (IF email = None THEN NULL ELSE email)

\* lines 398-429 (and 456-461 when no bed type branch matches): the
\* queries, the two early returns and the load of 'seat'.  With no branch
\* taken 'seat' is unbound at line 461 and the request ends in an error.
slotbookig_read(p) ==
    \E email \in EmailInputs, bedtype \in BedTypeInputs, hcode \in HCodes :
        LET r == [NoReq EXCEPT !.route = "main", !.hcode = hcode,
                               !.bedtype = bedtype, !.email = email]
            check2 == FilterByHcode(hcode)
        IN  /\ Start(p)
            /\ UNCHANGED tables
            /\ IF checkpatient(email)
               THEN Finish(p, r, Resp("already email id is registered"))
               ELSE IF check2 = NoRow
               THEN Finish(p, r, Resp("Hospital Code not exist"))
               ELSE IF MainBedField(bedtype) = None
               THEN Finish(p, r, Resp("Internal Server Error"))
               ELSE Goto(p, "slotbookig_write", r, Load(check2))

\* lines 430-431 (439-440, 447-448, 454-455): ar.<field> = seat - 1; commit.
\* When the loaded row was deleted in the meantime the UPDATE matches no row
\* and the commit raises (StaleDataError).
slotbookig_write(p) ==
    LET field == MainBedField(req[p].bedtype)
        seat == hospital[p].row[field]
    IN  /\ pc[p] = "slotbookig_write"
        /\ Hospitaldata' = CommitField(hospital[p], field, seat - 1)
        /\ UNCHANGED <<Bookingpatient, Trig, nreq>>
        /\ IF hospital[p].id \in DOMAIN Hospitaldata
           THEN Goto(p, "slotbookig_book", req[p], hospital[p])
           ELSE Finish(p, req[p], Resp("Internal Server Error"))

\* lines 459-473: the second existence check and the insert of the booking.
\* The row is built without an email (line 462) although the column is
\* declared unique and NOT NULL (line 116): the commit stores it with a NULL
\* email or the database refuses it, and the request ends in an error.
slotbookig_book(p) ==
    LET field == MainBedField(req[p].bedtype)
        seat == hospital[p].row[field]
        check == FilterByHcode(req[p].hcode)
        res == [bedtype |-> req[p].bedtype, hcode |-> req[p].hcode,
                email |-> NULL]
    IN  /\ pc[p] = "slotbookig_book"
        /\ UNCHANGED <<Hospitaldata, Trig, nreq>>
        /\ IF check = NoRow
           THEN /\ UNCHANGED Bookingpatient
                /\ Finish(p, req[p], Resp("Give the proper hospital Code"))
           ELSE IF seat > 0
           THEN \/ /\ Bookingpatient' = Append(Bookingpatient, res)
                   /\ Finish(p, req[p], Resp("Slot is Booked"))
                \/ /\ UNCHANGED Bookingpatient
                   /\ Finish(p, req[p], Resp("Internal Server Error"))
           ELSE /\ UNCHANGED Bookingpatient
                /\ Finish(p, req[p], Resp("Something Went Wrong"))

(* ---------------- services/realtime_service.py -------------------------- *)
\* the update_data of a request: the dict slotbooking passes at lines
\* 563-568, or the payload of the staff event
update_data(r) ==
    IF r.route = "enhanced"
    THEN [bed_type |-> Lower(r.bedtype), action |-> "decrease", count |-> 1]
    ELSE [bed_type |-> r.bedtype, action |-> r.action, count |-> r.count]

\* lines 220-240
_validate_bed_update(data) ==
    /\ data.bed_type \in {"normal", "hicu", "icu", "ventilator"}
    /\ data.action \in {"increase", "decrease", "set"}
    /\ data.count >= 0

\* lines 266-271
new_value(current_value, action, count) ==
    IF action = "increase" THEN current_value + count
    ELSE IF action = "decrease" THEN Max(0, current_value - count)
    ELSE count

\* what the caller of _broadcast_bed_update sees when the update fails:
\* emit('error', ...) in the socket handler; in slotbooking, outside a socket
\* event, the failure ends in the handler's 'except' (lines 576-579)
UpdateFailed(r, msg) ==
    IF r.route = "enhanced" THEN Resp("Booking failed. Please try again.")
    ELSE Resp(msg)

\* _broadcast_bed_update lines 184-191 with _update_hospital_beds lines
\* 244-271: validation, the import of the models, the load of the row
_broadcast_bed_update(p, r) ==
    LET h == FilterByHcode(r.hcode)
    IN  IF ~_validate_bed_update(update_data(r))
        THEN Finish(p, r, UpdateFailed(r, "Invalid bed update data"))
        ELSE \/ Finish(p, r, UpdateFailed(r, "Failed to update bed availability"))
             \/ IF h = NoRow
                THEN Finish(p, r, UpdateFailed(r, "Failed to update bed availability"))
                ELSE Goto(p, "_update_hospital_beds", r, Load(h))

\* handle_hospital_bed_update, lines 121-127: an event of a hospital user
\* whose hcode is hospital_code
hospital_bed_update(p) ==
    \E hospital_code \in StaffHCodes, bed_type \in RtBedTypeInputs,
       action \in RtActionInputs, count \in RtCountInputs :
        LET r == [NoReq EXCEPT !.route = "staff", !.hcode = hospital_code,
                               !.bedtype = bed_type, !.action = action,
                               !.count = count]
        IN  /\ Start(p)
            /\ UNCHANGED tables
            /\ _broadcast_bed_update(p, r)

\* _update_hospital_beds lines 273-274: setattr and commit
_update_hospital_beds(p) ==
    LET data == update_data(req[p])
        field_name == bed_field_map(data.bed_type)
        current_value == hospital[p].row[field_name]
    IN  /\ pc[p] = "_update_hospital_beds"
        /\ Hospitaldata' = CommitField(hospital[p], field_name,
                               new_value(current_value, data.action, data.count))
        /\ UNCHANGED <<Bookingpatient, Trig, nreq>>
        /\ Goto(p, "_log_bed_change", req[p], hospital[p])

\* the Trig row of lines 289-307: the changed bed type carries new_value,
\* the other three columns carry 0
log_entry(hospital_code, bed_type, value, action) ==
    [hcode |-> hospital_code,
     normalbed |-> IF bed_type = "normal" THEN value ELSE 0,
     hicubed |-> IF bed_type = "hicu" THEN value ELSE 0,
     icubed |-> IF bed_type = "icu" THEN value ELSE 0,
     vbed |-> IF bed_type = "ventilator" THEN value ELSE 0,
     querys |-> <<action, bed_type>>]

\* _log_bed_change lines 283-310 (its own commit), then the emits of
\* _broadcast_bed_update lines 193-214 and the return to the caller
_log_bed_change(p) ==
    LET data == update_data(req[p])
        current_value == hospital[p].row[bed_field_map(data.bed_type)]
        value == new_value(current_value, data.action, data.count)
    IN  /\ pc[p] = "_log_bed_change"
        /\ Trig' = AddTrig(log_entry(req[p].hcode, data.bed_type, value,
                                    data.action))
        /\ UNCHANGED <<Hospitaldata, Bookingpatient, nreq>>
        /\ Finish(p, req[p],
                  IF req[p].route = "enhanced"
                  THEN Resp("Bed booking successful!")
                  ELSE Resp("bed_update"))

(* --------------- enhanced_main.py: slotbooking (POST) -------------------- *)
\* choices of BedBookingForm.bedtype, forms/secure_forms.py lines 233-238;
\* hcode must be one of the choices set at line 497, email is DataRequired
BedBookingForm_bedtype == {"Normal", "HICU", "ICU", "Ventilator"}

\* validate_hospital_code: the codes that match ^[A-Z0-9]{3,10}$
validate_hospital_code(code) == code \in {"HOSP1", "HOSP2", "GHOST"}

\* validate_bed_booking lines 289-298: the fields that get an error
validate_bed_booking(r) ==
    (IF ~validate_hospital_code(r.hcode) THEN {"hcode"} ELSE {})
    \cup (IF r.bedtype \notin valid_bed_types THEN {"bedtype"} ELSE {})

\* lines 493-529: form and data validation, load of the hospital, the
\* availability check
slotbooking_check(p) ==
    \E email \in EmailInputs, bedtype \in BedTypeInputs, hcode \in HCodes :
        LET r == [NoReq EXCEPT !.route = "enhanced", !.hcode = hcode,
                               !.bedtype = bedtype, !.email = email]
            choices == {Hospitaldata[i].hcode :
                          i \in {j \in DOMAIN Hospitaldata :
                                   Hospitaldata[j].is_verified}}
            form_errors ==
                (IF bedtype \notin BedBookingForm_bedtype THEN {"bedtype"} ELSE {})
                \cup (IF hcode \notin choices THEN {"hcode"} ELSE {})
                \cup (IF email = None THEN {"email"} ELSE {})
            h == FilterByHcode(hcode)
            bed_field == EnhBedField(bedtype)
            available_beds ==
                IF bed_field = None THEN 0 ELSE Hospitaldata[h][bed_field]
        IN  /\ Start(p)
            /\ UNCHANGED tables
            /\ IF form_errors # {}
               THEN Finish(p, r, FormErrors(form_errors))
               ELSE IF validate_bed_booking(r) # {}
               THEN Finish(p, r, FormErrors(validate_bed_booking(r)))
               ELSE IF h = NoRow
               THEN Finish(p, r, Resp("Selected hospital not found."))
               ELSE IF available_beds <= 0
               THEN Finish(p, r, Resp("No beds available"))
               ELSE Goto(p, "slotbooking_commit", r, Load(h))

\* the Trig row of lines 547-557, built from the session's hospital object
trig(row, bed_type) ==
    [hcode |-> row.hcode, normalbed |-> row.normalbed,
     hicubed |-> row.hicubed, icubed |-> row.icubed, vbed |-> row.vbed,
     querys |-> <<"book", Lower(bed_type)>>]

\* lines 531-560 and 576-579: the try block up to its commit (booking row,
\* decremented counter and Trig row in one transaction), or its except
slotbooking_commit(p) ==
    LET bed_field == EnhBedField(req[p].bedtype)
        booking == [bedtype |-> req[p].bedtype, hcode |-> req[p].hcode,
                    email |-> req[p].email]
        decremented == [hospital[p].row EXCEPT ![bed_field] = @ - 1]
    IN  /\ pc[p] = "slotbooking_commit"
        /\ UNCHANGED nreq
        /\ \/ /\ Bookingpatient' = Append(Bookingpatient, booking)
              /\ Hospitaldata' = CommitField(hospital[p], bed_field,
                                             decremented[bed_field])
              /\ Trig' = AddTrig(trig(decremented, req[p].bedtype))
              /\ Goto(p, "slotbooking_broadcast", req[p], NotLoaded)
           \/ /\ UNCHANGED tables
              /\ Finish(p, req[p], Resp("Booking failed. Please try again."))

\* lines 562-574: realtime_service._broadcast_bed_update(hospital.hcode, ...)
slotbooking_broadcast(p) ==
    /\ pc[p] = "slotbooking_broadcast"
    /\ UNCHANGED <<tables, nreq>>
    /\ _broadcast_bed_update(p, req[p])

(* ------------------------ main.py: trigers ------------------------------ *)
\* lines 127-130: Trig.query.all() rendered; no table is written
trigers(p) ==
    /\ Start(p)
    /\ UNCHANGED tables
    /\ Finish(p, [NoReq EXCEPT !.route = "trigers"], Resp("trigers.html"))

(* ------------- main.py: addhospitalinfo, hedit, hdelete ---------------- *)
\* str.upper() on the codes the forms carry
Upper(hcode) ==
    CASE hcode = "hosp2" -> "HOSP2"
      [] OTHER -> hcode

\* the id an AUTO_INCREMENT primary key gives the next inserted row
NextId ==
    IF DOMAIN Hospitaldata = {} THEN 1
    ELSE 1 + CHOOSE i \in DOMAIN Hospitaldata :
                 \A j \in DOMAIN Hospitaldata : j <= i

\* lines 281-305 (POST): a row for a code that has a hospital user and no
\* data yet.  The handler's queries and its commit are one step.
addhospitalinfo(p) ==
    \E form \in HCodeFormInputs, beds \in BedFormInputs :
        LET hcode == Upper(form)
            r == [NoReq EXCEPT !.route = "addhospitalinfo", !.hcode = hcode]
            huser == hcode \in Hospitaluser
            hduser == FilterByHcode(hcode)
            query == [hcode |-> hcode, normalbed |-> beds.normalbed,
                      hicubed |-> beds.hicubed, icubed |-> beds.icubed,
                      vbed |-> beds.vbed, is_verified |-> FALSE]
        IN  /\ Start(p)
            /\ UNCHANGED <<Bookingpatient, Trig>>
            /\ IF hduser # NoRow
               THEN /\ UNCHANGED Hospitaldata
                    /\ Finish(p, r, Resp("Data is already Present you can update it.."))
               ELSE IF huser
               THEN /\ Hospitaldata' = Hospitaldata @@ (NextId :> query)
                    /\ Finish(p, r, Resp("Data Is Added"))
               ELSE /\ UNCHANGED Hospitaldata
                    /\ Finish(p, r, Resp("Hospital Code not Exist"))

\* lines 312-333 (POST): every column of row <id> is assigned from the
\* form, the code included.  No row with that id: 'post' is None and the
\* assignment raises; a code another row holds: the unique index refuses
\* the commit.
hedit(p) ==
    \E id \in IdInputs, form \in HCodeFormInputs, beds \in BedFormInputs :
        LET hcode == Upper(form)
            r == [NoReq EXCEPT !.route = "hedit", !.hcode = hcode]
        IN  /\ Start(p)
            /\ UNCHANGED <<Bookingpatient, Trig>>
            /\ IF \/ id \notin DOMAIN Hospitaldata
                  \/ RowIds(hcode) \ {id} # {}
               THEN /\ UNCHANGED Hospitaldata
                    /\ Finish(p, r, Resp("Internal Server Error"))
               ELSE /\ Hospitaldata' =
                        [Hospitaldata EXCEPT ![id] =
                            [@ EXCEPT !.hcode = hcode,
                                      !.normalbed = beds.normalbed,
                                      !.hicubed = beds.hicubed,
                                      !.icubed = beds.icubed,
                                      !.vbed = beds.vbed]]
                    /\ Finish(p, r, Resp("Slot Updated"))

\* lines 341-347: the row with that id is deleted, whatever refers to its
\* code.  No row with that id: session.delete(None) raises.
hdelete(p) ==
    \E id \in IdInputs :
        LET r == [NoReq EXCEPT !.route = "hdelete"]
        IN  /\ Start(p)
            /\ UNCHANGED <<Bookingpatient, Trig>>
            /\ IF id \notin DOMAIN Hospitaldata
               THEN /\ UNCHANGED Hospitaldata
                    /\ Finish(p, r, Resp("Internal Server Error"))
               ELSE /\ Hospitaldata' =
                        [i \in DOMAIN Hospitaldata \ {id} |-> Hospitaldata[i]]
                    /\ Finish(p, r, Resp("Date Deleted"))

(* ------------ services/api_service.py: booking status ------------------ *)
\* lines 498-535: the status is checked against valid_statuses and echoed
\* back in the response; no table is read or written.  In the request
\* record 'count' carries the booking id and 'action' the new status.
api_update_booking_status(p) ==
    \E booking_id \in BookingIdInputs, new_status \in StatusInputs :
        LET r == [NoReq EXCEPT !.route = "api_update_booking_status",
                               !.count = booking_id, !.action = new_status]
        IN  /\ Start(p)
            /\ UNCHANGED tables
            /\ IF new_status \notin valid_statuses
               THEN Finish(p, r, Resp("Invalid status"))
               ELSE Finish(p, r, Resp("Booking status updated successfully"))

(* ---------- enhanced_main.py: security_checks, login; sessions ---------- *)
\* form.email.data.lower()
EmailLower(email) ==
    CASE email = "A@x.org" -> "a@x.org"
      [] OTHER -> email

\* redis keys with a time to live: a key is present until its expiry time
Present(expiry) == expiry > now

\* the value of the attempts key of an identifier, 0 when absent or expired
Attempts(store, identifier) ==
    IF Present(store.attempts_expiry[identifier])
    THEN store.attempts[identifier]
    ELSE 0

\* security_service.track_login_attempt, lines 111-152, on the store: the
\* store after the call and the 'locked' of the dict it returns
track_login_attempt(store, identifier, success) ==
    IF Present(store.lockout[identifier])
    THEN [store |-> store, locked |-> TRUE]
    ELSE IF success
    THEN [store |-> [store EXCEPT !.attempts[identifier] = 0,
                                  !.attempts_expiry[identifier] = 0],
          locked |-> FALSE]
    ELSE LET attempts == Attempts(store, identifier) + 1
             counted == [store EXCEPT
                            !.attempts[identifier] = attempts,
                            !.attempts_expiry[identifier] =
                                now + ATTEMPTS_EXPIRE]
         IN  IF attempts >= MAX_LOGIN_ATTEMPTS
             THEN [store |-> [counted EXCEPT !.lockout[identifier] =
                                  now + ACCOUNT_LOCKOUT_MINUTES],
                   locked |-> TRUE]
             ELSE [store |-> counted, locked |-> FALSE]

\* security_service.update_session_activity, lines 181-187
update_session_activity(s, fingerprint) ==
    [s EXCEPT !.last_activity = now,
              !.fingerprint = IF @ = None THEN fingerprint ELSE @]

\* security_service.validate_session, lines 154-179
validate_session(s, fingerprint) ==
    IF s.user_id = NoUser THEN FALSE
    ELSE IF /\ s.last_activity # NoTime
            /\ now - s.last_activity > SESSION_TIMEOUT_MINUTES
    THEN FALSE
    ELSE IF s.fingerprint # None /\ s.fingerprint # fingerprint
    THEN FALSE
    ELSE TRUE

\* flask_login: current_user.is_authenticated, from the session key the
\* installed Flask-Login keeps the user id under
is_authenticated(s) ==
    IF login_key = "user_id" THEN s.user_id # NoUser ELSE s._user_id # NoUser

\* flask_login.login_user(user)
login_user(s, id) ==
    IF login_key = "user_id" THEN [s EXCEPT !.user_id = id]
    ELSE [s EXCEPT !._user_id = id]

\* enhanced_main.security_checks, lines 232-243 (before every request): the
\* session after it and whether the request goes on to its handler.
\* secure_logout clears the session.
security_checks(s, fingerprint) ==
    LET updated == update_session_activity(s, fingerprint)
    IN  IF is_authenticated(updated) /\ ~validate_session(updated, fingerprint)
        THEN [session |-> NoSession, pass |-> FALSE]
        ELSE [session |-> updated, pass |-> TRUE]

\* security_service.session_required, lines 309-322 (decorator of
\* /slotbooking)
session_required(s, fingerprint) ==
    IF ~validate_session(s, fingerprint)
    THEN [session |-> NoSession, pass |-> FALSE]
    ELSE [session |-> update_session_activity(s, fingerprint), pass |-> TRUE]

SessionExpired == Resp("Your session has expired. Please log in again.")

\* the handler of request r returns its response; of the request, 'last'
\* keeps the route, the identifier and the fingerprint
Answer(p, r, result) ==
    /\ pc' = [pc EXCEPT ![p] = "idle"]
    /\ req' = [req EXCEPT ![p] = NoReq]
    /\ last' = [req |-> [route |-> r.route, email |-> r.email,
                         fingerprint |-> r.fingerprint],
                resp |-> result]

\* whether a submission carries wrong credentials
WrongCredentials(r) ==
    \/ r.email \notin DOMAIN users
    \/ r.password # "right"
    \/ users[r.email].mfa_enabled /\ r.mfa_token = "invalid"

\* login, lines 325-342: before_request, the form, and the lockout check
\* track_login_attempt(email, False) that every submission starts with
login_track(p) ==
    \E email \in LoginEmailInputs, password \in PasswordInputs,
       mfa_token \in MfaTokenInputs, fingerprint \in Fingerprints :
        LET r == [route |-> "login", email |-> EmailLower(email),
                  password |-> password, mfa_token |-> mfa_token,
                  fingerprint |-> fingerprint]
            checked == security_checks(session, fingerprint)
            login_attempts == track_login_attempt(redis, r.email, FALSE)
        IN  /\ pc[p] = "idle"
            /\ nreq < MaxSubmissions
            /\ nreq' = nreq + 1
            /\ session' = checked.session
            /\ UNCHANGED <<tables, hospital, now, requests, calls, users,
                           login_key, realtime_service>>
            /\ IF ~checked.pass
               THEN /\ UNCHANGED <<redis, wrong>>
                    /\ Answer(p, r, SessionExpired)
               ELSE /\ redis' = login_attempts.store
                    /\ wrong' = [wrong EXCEPT ![r.email] =
                                    IF WrongCredentials(r) THEN @ + 1 ELSE @]
                    /\ IF login_attempts.locked
                       THEN Answer(p, r, Resp("Account locked due to too many failed attempts."))
                       ELSE /\ pc' = [pc EXCEPT ![p] = "login_check"]
                            /\ req' = [req EXCEPT ![p] = r]
                            /\ UNCHANGED last

\* login as it would be if a submission without a code went on to the
\* successful login instead of being answered "code required"
login_check_code_optional(p) ==
    LET r == req[p]
        user == IF r.email \in DOMAIN users THEN users[r.email] ELSE NoUserRow
        credentials == /\ user # NoUserRow
                       /\ r.password = "right"
                       /\ ~(user.account_locked_until > now)
        failed == IF user = NoUserRow THEN 0
                  ELSE user.failed_login_attempts + 1
    IN  /\ pc[p] = "login_check"
        /\ UNCHANGED <<tables, hospital, nreq, now, requests, calls, login_key,
                       realtime_service>>
        /\ IF credentials /\ user.mfa_enabled /\ r.mfa_token = "invalid"
           THEN /\ redis' = track_login_attempt(redis, r.email, FALSE).store
                /\ UNCHANGED <<users, session, wrong>>
                /\ Answer(p, r, Resp("Invalid authentication code."))
           ELSE IF credentials
           THEN /\ session' = login_user(session, user.id)
                /\ users' = [users EXCEPT ![r.email].failed_login_attempts = 0]
                /\ redis' = track_login_attempt(redis, r.email, TRUE).store
                /\ wrong' = [wrong EXCEPT ![r.email] = 0]
                /\ Answer(p, r, Resp("Login successful!"))
           ELSE /\ redis' = track_login_attempt(redis, r.email, FALSE).store
                /\ users' =
                     IF user = NoUserRow THEN users
                     ELSE [users EXCEPT
                             ![r.email].failed_login_attempts = failed,
                             ![r.email].account_locked_until =
                                 IF failed >= MAX_LOGIN_ATTEMPTS
                                 THEN now + ACCOUNT_LOCKOUT_MINUTES
                                 ELSE @]
                /\ UNCHANGED <<session, wrong>>
                /\ Answer(p, r, Resp("Invalid email or password."))

\* login, lines 344-403: the user row, the password, the account lock of
\* the row, the MFA code, and the bookkeeping of the success or the failure
login_check(p) ==
    LET r == req[p]
        user == IF r.email \in DOMAIN users THEN users[r.email] ELSE NoUserRow
        credentials == /\ user # NoUserRow
                       /\ r.password = "right"
                       /\ ~(user.account_locked_until > now)
        failed == IF user = NoUserRow THEN 0
                  ELSE user.failed_login_attempts + 1
    IN  /\ pc[p] = "login_check"
        /\ UNCHANGED <<tables, hospital, nreq, now, requests, calls, login_key,
                       realtime_service>>
        /\ IF credentials /\ user.mfa_enabled /\ r.mfa_token = None
           THEN /\ UNCHANGED <<redis, users, session, wrong>>
                /\ Answer(p, r, Resp("Multi-factor authentication code required."))
           ELSE IF credentials /\ user.mfa_enabled /\ r.mfa_token # "valid"
           THEN /\ redis' = track_login_attempt(redis, r.email, FALSE).store
                /\ UNCHANGED <<users, session, wrong>>
                /\ Answer(p, r, Resp("Invalid authentication code."))
           ELSE IF credentials
           THEN /\ session' = login_user(session, user.id)
                /\ users' = [users EXCEPT ![r.email].failed_login_attempts = 0]
                /\ redis' = track_login_attempt(redis, r.email, TRUE).store
                /\ wrong' = [wrong EXCEPT ![r.email] = 0]
                /\ Answer(p, r, Resp("Login successful!"))
           ELSE /\ redis' = track_login_attempt(redis, r.email, FALSE).store
                /\ users' =
                     IF user = NoUserRow THEN users
                     ELSE [users EXCEPT
                             ![r.email].failed_login_attempts = failed,
                             ![r.email].account_locked_until =
                                 IF failed >= MAX_LOGIN_ATTEMPTS
                                 THEN now + ACCOUNT_LOCKOUT_MINUTES
                                 ELSE @]
                /\ UNCHANGED <<session, wrong>>
                /\ Answer(p, r, Resp("Invalid email or password."))

\* a GET of the client's browser: '/' (index) or '/slotbooking', which is
\* decorated with session_required
page(p) ==
    \E route \in PageRoutes, fingerprint \in Fingerprints :
        LET r == [route |-> route, email |-> None, fingerprint |-> fingerprint]
            checked == security_checks(session, fingerprint)
            required == session_required(checked.session, fingerprint)
        IN  /\ pc[p] = "idle"
            /\ UNCHANGED <<tables, hospital, nreq, now, requests, calls,
                           redis, users, login_key, realtime_service, wrong>>
            /\ IF ~checked.pass
               THEN /\ session' = checked.session
                    /\ Answer(p, r, SessionExpired)
               ELSE IF route = "slotbooking"
               THEN /\ session' = required.session
                    /\ IF required.pass
                       THEN Answer(p, r, Resp("booking.html"))
                       ELSE Answer(p, r, SessionExpired)
               ELSE /\ session' = checked.session
                    /\ Answer(p, r, Resp("index.html"))

\* time passes for the sessions and the login bookkeeping
TickAuth ==
    /\ now < MaxTime
    /\ now' = now + 1
    /\ UNCHANGED <<tables, handlers, requests, calls, redis, users, session,
                   login_key, realtime_service, wrong>>

\* login forms submitted by any number of clients
NextLogin ==
    \/ \E p \in Procs :
          \/ login_track(p)
          \/ login_check(p)
    \/ TickAuth

SpecLogin == InitAuth /\ [][NextLogin]_vars

\* the requests of one browser, one after the other
NextSession ==
    \/ login_track("t1")
    \/ login_check("t1")
    \/ page("t1")
    \/ TickAuth

SpecSession == InitAuth /\ [][NextSession]_vars

(* ------------- services/api_service.py: APIRateLimiter ----------------- *)
\* self.limits, lines 68-72, with the time unit and the request counts
\* scaled down: source 100 per 3600 s, 10 per 300 s, 50 per 3600 s.  The
\* order of the three counts and of the windows is the source's.
limits ==
    [default |-> [requests |-> 3, window |-> 2],
     auth |-> [requests |-> 1, window |-> 1],
     analytics |-> [requests |-> 2, window |-> 2]]

\* self.limits.get(endpoint_type, self.limits['default'])
limit_config(endpoint_type) ==
    IF endpoint_type \in DOMAIN limits
    THEN limits[endpoint_type]
    ELSE limits["default"]

\* lines 84-87: the timestamps of a list that are later than window_start
Clean(times, window_start) == SelectSeq(times, LAMBDA t : t > window_start)

\* lines 74-95: one call of is_allowed.  The list of a client is one list
\* for all endpoint types.
is_allowed(client_id, endpoint_type) ==
    LET window_start == now - limit_config(endpoint_type).window
        kept == Clean(requests[client_id], window_start)
        allowed == Len(kept) < limit_config(endpoint_type).requests
        call == [client_id |-> client_id, endpoint_type |-> endpoint_type,
                 time |-> now, allowed |-> allowed]
    IN  /\ Len(calls) < MaxCalls
        /\ requests' = [requests EXCEPT ![client_id] =
                            IF allowed THEN Append(kept, now) ELSE kept]
        /\ calls' = Append(calls, call)
        /\ UNCHANGED <<tables, handlers, now, redis, users, session, login_key,
                       realtime_service,
                   wrong>>

\* time passes
Tick ==
    /\ now < MaxTime
    /\ now' = now + 1
    /\ UNCHANGED <<tables, handlers, requests, calls, redis, users, session,
                   login_key, realtime_service, wrong>>

\* the calls the rate_limit decorator makes for the requests of the API
NextRateLimiter ==
    \/ \E client_id \in ClientIds, endpoint_type \in EndpointTypes :
          is_allowed(client_id, endpoint_type)
    \/ Tick

SpecRateLimiter == Init /\ [][NextRateLimiter]_vars

(* ------------------ account recovery (auth_service.py) ----------------- *)
\* a call of the service returns: the thread is free again and the call
\* is recorded with its result
Return(p, call, result) ==
    /\ pc' = [pc EXCEPT ![p] = "idle"]
    /\ req' = [req EXCEPT ![p] = NoReq]
    /\ calls' = Append(calls, [call EXCEPT !.result = result])

\* verify_backup_code, lines 129-139: the call and its sismember
verify_backup_code_sismember(p) ==
    \E user_id \in UserIdInputs, backup_code \in BackupCodeInputs :
        LET call == [route |-> "verify_backup_code", user_id |-> user_id,
                     backup_code |-> backup_code, result |-> None]
        IN  /\ pc[p] = "idle"
            /\ nreq < MaxCalls
            /\ nreq' = nreq + 1
            /\ UNCHANGED <<tables, hospital, last, now, requests, redis,
                           users, session, login_key, realtime_service, wrong>>
            /\ IF backup_code \in redis.backup_codes[user_id]
               THEN /\ pc' = [pc EXCEPT ![p] = "verify_backup_code_srem"]
                    /\ req' = [req EXCEPT ![p] = call]
                    /\ UNCHANGED calls
               ELSE Return(p, call, FALSE)

\* verify_backup_code, lines 140-146: the srem of the code that sismember
\* found, the log entry, and the return of True
verify_backup_code_srem(p) ==
    /\ pc[p] = "verify_backup_code_srem"
    /\ redis' = [redis EXCEPT !.backup_codes[req[p].user_id] =
                     @ \ {req[p].backup_code}]
    /\ Return(p, req[p], TRUE)
    /\ UNCHANGED <<tables, hospital, last, nreq, now, requests, users,
                   session, login_key, realtime_service, wrong>>

\* verify_password_reset_token, lines 198-205: the call and its get; a key
\* whose hour has passed is gone
verify_password_reset_token_get(p) ==
    \E token \in ResetTokenInputs :
        LET call == [route |-> "verify_password_reset_token",
                     token |-> token, result |-> None]
            email == IF Present(redis.reset_token[token].expiry)
                     THEN redis.reset_token[token].email
                     ELSE None
        IN  /\ pc[p] = "idle"
            /\ nreq < MaxCalls
            /\ nreq' = nreq + 1
            /\ UNCHANGED <<tables, hospital, last, now, requests, redis,
                           users, session, login_key, realtime_service, wrong>>
            /\ IF email # None
               THEN /\ pc' = [pc EXCEPT ![p] =
                                 "verify_password_reset_token_delete"]
                    /\ req' = [req EXCEPT ![p] =
                                 [call EXCEPT !.result = email]]
                    /\ UNCHANGED calls
               ELSE Return(p, call, None)

\* verify_password_reset_token, lines 206-209: the delete of the key and
\* the return of the email that get has read
verify_password_reset_token_delete(p) ==
    /\ pc[p] = "verify_password_reset_token_delete"
    /\ redis' = [redis EXCEPT !.reset_token[req[p].token] = NoToken]
    /\ Return(p, req[p], req[p].result)
    /\ UNCHANGED <<tables, hospital, last, nreq, now, requests, users,
                   session, login_key, realtime_service, wrong>>

\* backup codes and reset tokens presented by any number of clients
NextRecovery ==
    \/ \E p \in Procs :
          \/ verify_backup_code_sismember(p)
          \/ verify_backup_code_srem(p)
          \/ verify_password_reset_token_get(p)
          \/ verify_password_reset_token_delete(p)
    \/ Tick

SpecRecovery == Init /\ [][NextRecovery]_vars

(* ------------- SecurityService.check_rate_limit (Redis) --------------- *)
\* the members of the sorted set of an identifier; a key whose time to
\* live has passed is gone
Members(store, identifier) ==
    IF Present(store.rate_limit[identifier].expiry)
    THEN store.rate_limit[identifier].members
    ELSE {}

\* check_rate_limit, lines 90-101: current_time, zremrangebyscore of the
\* scores 0..window_start, zcard, and the return of False at the limit
check_rate_limit_zcard(p) ==
    \E identifier \in RateIdentifiers :
        LET current_time == now
            window_start == current_time - RATE_WINDOW
            kept == {t \in Members(redis, identifier) : t > window_start}
            call == [route |-> "check_rate_limit", identifier |-> identifier,
                     time |-> current_time, result |-> None]
        IN  /\ pc[p] = "idle"
            /\ nreq < MaxCalls
            /\ nreq' = nreq + 1
            /\ redis' = [redis EXCEPT !.rate_limit[identifier].members = kept]
            /\ UNCHANGED <<tables, hospital, last, now, requests, users,
                           session, login_key, realtime_service, wrong>>
            /\ IF Cardinality(kept) >= RATE_LIMIT
               THEN Return(p, call, FALSE)
               ELSE /\ pc' = [pc EXCEPT ![p] = "check_rate_limit_zadd"]
                    /\ req' = [req EXCEPT ![p] = call]
                    /\ UNCHANGED calls

\* check_rate_limit, lines 103-107: zadd of the member str(current_time)
\* with the score current_time, expire, and the return of True.  The
\* members of a sorted set are distinct: a second zadd of the same second
\* adds nothing.
check_rate_limit_zadd(p) ==
    /\ pc[p] = "check_rate_limit_zadd"
    /\ redis' = [redis EXCEPT !.rate_limit[req[p].identifier] =
                    [members |-> Members(redis, req[p].identifier)
                                    \cup {req[p].time},
                     expiry |-> now + RATE_WINDOW]]
    /\ Return(p, req[p], TRUE)
    /\ UNCHANGED <<tables, hospital, last, nreq, now, requests, users,
                   session, login_key, realtime_service, wrong>>

\* the requests of the rate-limited endpoints
NextRateLimit ==
    \/ \E p \in Procs :
          \/ check_rate_limit_zcard(p)
          \/ check_rate_limit_zadd(p)
    \/ Tick

SpecRateLimit == Init /\ [][NextRateLimit]_vars

(* --------------- connections (realtime_service.py) -------------------- *)
\* a dict with the key set to the value, and without the key
Set(dict, key, value) ==
    [k \in DOMAIN dict \cup {key} |-> IF k = key THEN value ELSE dict[k]]
Del(dict, key) == [k \in DOMAIN dict \ {key} |-> dict[k]]

\* a socket event has been handled
Handled(event, result) ==
    /\ last' = [req |-> [NoReq EXCEPT !.route = event], resp |-> result]
    /\ UNCHANGED <<tables, pc, req, hospital, nreq, now, requests, calls,
                   redis, users, session, login_key, wrong>>

\* handle_connect, lines 49-83: a new connection of current_user
handle_connect(sid, current_user) ==
    /\ sid \notin DOMAIN realtime_service.connected_users
    /\ IF current_user.is_authenticated
       THEN /\ realtime_service' =
                 [connected_users |->
                      Set(realtime_service.connected_users, sid,
                          [user_id |-> current_user.id,
                           user_type |-> current_user.user_type]),
                  hospital_rooms |->
                      IF /\ current_user.user_type = "hospital"
                         /\ current_user.hcode # None
                      THEN Set(realtime_service.hospital_rooms, sid,
                               current_user.hcode)
                      ELSE realtime_service.hospital_rooms]
            /\ Handled("connect", Resp("connection_confirmed"))
       ELSE /\ UNCHANGED realtime_service
            /\ Handled("connect", Resp("disconnect"))

\* handle_disconnect, lines 85-101
handle_disconnect(sid) ==
    /\ sid \in DOMAIN realtime_service.connected_users
    /\ realtime_service' =
         [connected_users |-> Del(realtime_service.connected_users, sid),
          hospital_rooms |-> Del(realtime_service.hospital_rooms, sid)]
    /\ Handled("disconnect", Resp(None))

\* get_connected_users_count, lines 371-385: 'total' is the size of the
\* registry; the loop adds one to counts[user_type] for every connection
\* whose user_type is a key of counts
get_connected_users_count ==
    LET connected_users == realtime_service.connected_users
        counts == [total |-> Cardinality(DOMAIN connected_users),
                   patients |-> 0, hospitals |-> 0, admins |-> 0]
        added(key) == Cardinality({sid \in DOMAIN connected_users :
                                      connected_users[sid].user_type = key})
    IN  [key \in DOMAIN counts |-> counts[key] + added(key)]

\* dashboard, enhanced_main.py lines 594-621: the page shows the
\* counts
dashboard ==
    /\ Handled("dashboard",
               [msg |-> "dashboard.html", fields |-> {},
                connected_users |-> get_connected_users_count])
    /\ UNCHANGED realtime_service

\* sockets connect and disconnect, the dashboard is opened
NextRealtime ==
    \/ \E sid \in Sids, current_user \in SocketUsers :
          handle_connect(sid, current_user)
    \/ \E sid \in Sids : handle_disconnect(sid)
    \/ dashboard

SpecRealtime == Init /\ [][NextRealtime]_vars

Next ==
    \E p \in Procs :
        \/ slotbookig_read(p)
        \/ slotbookig_write(p)
        \/ slotbookig_book(p)
        \/ slotbooking_check(p)
        \/ slotbooking_commit(p)
        \/ slotbooking_broadcast(p)
        \/ hospital_bed_update(p)
        \/ _update_hospital_beds(p)
        \/ _log_bed_change(p)
        \/ trigers(p)

Spec == Init /\ [][Next]_vars

\* patients' booking requests only: no staff event, no read of the log
NextBooking ==
    \E p \in Procs :
        \/ slotbookig_read(p)
        \/ slotbookig_write(p)
        \/ slotbookig_book(p)
        \/ slotbooking_check(p)
        \/ slotbooking_commit(p)
        \/ slotbooking_broadcast(p)
        \/ _update_hospital_beds(p)
        \/ _log_bed_change(p)

SpecBooking == Init /\ [][NextBooking]_vars

\* the application of main.py: patients' bookings and the hospital data
\* forms
NextAdmin ==
    \E p \in Procs :
        \/ slotbookig_read(p)
        \/ slotbookig_write(p)
        \/ slotbookig_book(p)
        \/ addhospitalinfo(p)
        \/ hedit(p)
        \/ hdelete(p)

SpecAdmin == Init /\ [][NextAdmin]_vars

\* patients' bookings and the status updates of the REST API
NextRelease ==
    \E p \in Procs :
        \/ slotbookig_read(p)
        \/ slotbookig_write(p)
        \/ slotbookig_book(p)
        \/ slotbooking_check(p)
        \/ slotbooking_commit(p)
        \/ slotbooking_broadcast(p)
        \/ _update_hospital_beds(p)
        \/ _log_bed_change(p)
        \/ api_update_booking_status(p)

SpecRelease == Init /\ [][NextRelease]_vars

(* ========================= properties ================================== *)
BookingRoutes == {"main", "enhanced"}
IsBooking(r) == r.route \in BookingRoutes

\* the four kinds of bed under the names each route gives them
RecognizedKinds(route) ==
    IF route = "main"
    THEN {"NormalBed", "HICUBed", "ICUBed", "VENTILATORBed"}
    ELSE {"Normal", "HICU", "ICU", "Ventilator"}

\* the counter a kind of bed is counted in
KindCounter(bedtype) ==
    CASE bedtype \in {"NormalBed", "Normal"} -> "normalbed"
      [] bedtype \in {"HICUBed", "HICU"} -> "hicubed"
      [] bedtype \in {"ICUBed", "ICU"} -> "icubed"
      [] bedtype \in {"VENTILATORBed", "Ventilator"} -> "vbed"
      [] OTHER -> None

\* booking rows stored for hospital code h and counter f
Granted(h, f) ==
    Cardinality({k \in 1..Len(Bookingpatient) :
                   /\ Bookingpatient[k].hcode = h
                   /\ KindCounter(Bookingpatient[k].bedtype) = f})

\* responses that tell the patient the bed is booked
IsGrant(resp) == resp.msg \in {"Slot is Booked", "Bed booking successful!"}

\* responses that tell the caller the hospital is not known
IsNotFound(resp) ==
    \/ resp.msg \in {"Hospital Code not exist", "Selected hospital not found.",
                     "Give the proper hospital Code"}
    \/ resp.msg = "form errors" /\ "hcode" \in resp.fields

\* this step answers, as a whole, a request that was accepted in it
AnsweredAtOnce == nreq' = nreq + 1 /\ pc' = pc

\* this step is taken by thread p in the middle of its request
StepOf(p) == pc[p] # "idle" /\ pc'[p] # pc[p]

\* this step accepts a request that thread p goes on to handle
AcceptedBy(p) == pc[p] = "idle" /\ pc'[p] # "idle"

AllIdle == \A p \in Procs : pc[p] = "idle"

\* hospital code h has a Hospitaldata row, and that row
HasRow(h) == \E i \in DOMAIN Hospitaldata : Hospitaldata[i].hcode = h
RowOf(h) == CHOOSE i \in DOMAIN Hospitaldata : Hospitaldata[i].hcode = h

\* C1: every counter of every hospital is >= 0 in every reachable state
C1_CountersNonNegative ==
    \A i \in DOMAIN Hospitaldata : \A f \in BedFields : Hospitaldata[i][f] >= 0

\* C2: with bookings only, the bookings granted for a hospital and category
\* never outnumber the K beds the category held: of N concurrent requests
\* at most K are granted, two requests for the last bed never both succeed
C2_NoOverbooking ==
    \A i \in DOMAIN InitHospitaldata : \A f \in BedFields :
        Granted(InitHospitaldata[i].hcode, f) <= InitHospitaldata[i][f]

\* C3: a booking request against a category whose counter is 0 or less is
\* rejected, and no step of it changes a counter, the booking table or the
\* audit log
C3_EmptyCategoryRejected ==
    [][/\ \A p \in Procs :
            (/\ StepOf(p)
             /\ pc[p] \in {"slotbookig_write", "slotbookig_book",
                           "slotbooking_commit"}
             /\ hospital[p].row[KindCounter(req[p].bedtype)] <= 0)
            => /\ tables' = tables
               /\ (pc'[p] = "idle" => ~IsGrant(last'.resp))
       /\ (/\ AnsweredAtOnce
           /\ IsBooking(last'.req)
           /\ last'.req.bedtype \in RecognizedKinds(last'.req.route)
           /\ HasRow(last'.req.hcode)
           /\ Hospitaldata[RowOf(last'.req.hcode)]
                          [KindCounter(last'.req.bedtype)] <= 0)
          => /\ tables' = tables
             /\ ~IsGrant(last'.resp)
      ]_vars

\* C4: with bookings only, for each hospital and category the initial counter
\* minus the current counter equals the number of booking rows stored for
\* that hospital and category
C4_DecrementsMatchRecords ==
    \A i \in DOMAIN Hospitaldata : \A f \in BedFields :
        InitHospitaldata[i][f] - Hospitaldata[i][f]
            = Granted(Hospitaldata[i].hcode, f)

\* C5: a step commits a change of a bed counter exactly when it commits one
\* new Trig row, and the rows already in Trig stay
C5_ChangeAndAuditTogether ==
    [][/\ (Hospitaldata' # Hospitaldata) <=> (Len(Trig') = Len(Trig) + 1)
       /\ Len(Trig') \in {Len(Trig), Len(Trig) + 1}
      ]_vars

\* the index of the latest Trig row of hospital code h, 0 when it has none
LatestTrig(h) ==
    LET ks == {k \in 1..Len(Trig) : Trig[k].hcode = h}
    IN  IF ks = {} THEN 0 ELSE CHOOSE k \in ks : \A j \in ks : j <= k

IsGhostBooking(r) == IsBooking(r) /\ ~HasRow(r.hcode)

C8_TrigAppendOnly ==
    [][/\ Len(Trig') >= Len(Trig)
       /\ SubSeq(Trig', 1, Len(Trig)) = Trig
      ]_vars

\* a second row was appended to a log that already held one
C8_Witness == Len(Trig) >= 2

\* C9: a step of a booking request for (H, C) leaves the counter of every
\* other pair (H', C') unchanged
C9_OtherCountersUnchanged ==
    [][/\ \A p \in Procs :
            (StepOf(p) /\ IsBooking(req[p])) =>
                \A i \in DOMAIN Hospitaldata : \A f \in BedFields :
                    (\/ Hospitaldata[i].hcode # req[p].hcode
                     \/ f # KindCounter(req[p].bedtype))
                    => /\ i \in DOMAIN Hospitaldata'
                       /\ Hospitaldata'[i][f] = Hospitaldata[i][f]
       /\ (nreq' = nreq + 1) => Hospitaldata' = Hospitaldata
      ]_vars

\* two bookings for different pairs are under way, each has read its row,
\* and one of them has committed its decrement
C9_Witness ==
    \E p, q \in Procs :
        /\ pc[p] = "slotbookig_book"
        /\ pc[q] \in {"slotbookig_write", "slotbookig_book"}
        /\ <<req[p].hcode, req[p].bedtype>> # <<req[q].hcode, req[q].bedtype>>
        /\ Hospitaldata # InitHospitaldata

\* a booking request whose bed type is none of the four kinds of its route
IsUnrecognized(r) == IsBooking(r) /\ r.bedtype \notin RecognizedKinds(r.route)

\* C10: a booking request whose bed type is not one of the four recognized
\* kinds is rejected and changes no counter, booking row or Trig row
C10_UnknownBedTypeRejected ==
    [][/\ \A p \in Procs :
            (StepOf(p) /\ IsUnrecognized(req[p]))
            => /\ tables' = tables
               /\ (pc'[p] = "idle" => ~IsGrant(last'.resp))
       /\ \A p \in Procs :
            (AcceptedBy(p) /\ IsUnrecognized(req'[p])) => tables' = tables
       /\ (AnsweredAtOnce /\ IsUnrecognized(last'.req))
          => (tables' = tables /\ ~IsGrant(last'.resp))
      ]_vars

\* a request with an unknown bed type for an existing hospital was answered
\* after the bed type dispatch
C10_Witness ==
    /\ IsUnrecognized(last.req)
    /\ HasRow(last.req.hcode)
    /\ last.resp.msg \in {"Internal Server Error", "form errors"}

\* this step answers a booking request for an existing hospital whose
\* requested category has no beds left: at once, judged by the live counter,
\* or at the end of slotbookig, judged by the 'seat' the request read
NoBedsAnswered ==
    \/ /\ AnsweredAtOnce
       /\ IsBooking(last'.req)
       /\ last'.req.bedtype \in RecognizedKinds(last'.req.route)
       /\ HasRow(last'.req.hcode)
       /\ Hospitaldata[RowOf(last'.req.hcode)]
                      [KindCounter(last'.req.bedtype)] <= 0
    \/ \E p \in Procs :
          /\ pc[p] = "slotbookig_book"
          /\ pc'[p] = "idle"
          /\ HasRow(req[p].hcode)
          /\ hospital[p].row[KindCounter(req[p].bedtype)] <= 0

\* C11: on each booking route, when a booking request for a hospital code
\* without a row has been answered and the next answer goes to a booking
\* request for an existing hospital whose category has no beds left, the two
\* responses differ
C11_NotFoundDistinctFromNoBeds ==
    [][(/\ IsGhostBooking(last.req)
        /\ NoBedsAnswered
        /\ last'.req.route = last.req.route)
       => last'.resp # last.resp
      ]_vars

\* C12: a step that deletes a Hospitaldata row deletes no row whose code a
\* stored booking names
C12_NoDeleteWhileBooked ==
    [][\A i \in DOMAIN Hospitaldata :
          i \notin DOMAIN Hospitaldata' =>
              \A k \in 1..Len(Bookingpatient) :
                  Bookingpatient[k].hcode # Hospitaldata[i].hcode
      ]_vars

\* C13: the hcode of a Hospitaldata row is the same after every step that
\* leaves the row in the table
C13_HcodeImmutable ==
    [][\A i \in DOMAIN Hospitaldata \cap DOMAIN Hospitaldata' :
          Hospitaldata'[i].hcode = Hospitaldata[i].hcode
      ]_vars

\* C14: when a behaviour consists of one granted booking followed by the
\* accepted cancellation of that booking, and both requests are over, every
\* counter has the value it had before the booking
C14_BookThenReleaseRestores ==
    (/\ AllIdle
     /\ nreq = 2
     /\ Len(Bookingpatient) = 1
     /\ last.req.route = "api_update_booking_status"
     /\ last.req.count = 1
     /\ last.req.action = "cancelled"
     /\ last.resp.msg = "Booking status updated successfully")
    => \A i \in DOMAIN Hospitaldata : \A f \in BedFields :
           Hospitaldata[i][f] = InitHospitaldata[i][f]

\* the calls before call k, and k itself, that is_allowed has allowed for
\* the client and endpoint type of call k within the window that ends at k
AllowedInWindow(k) ==
    {j \in 1..k :
        /\ calls[j].allowed
        /\ calls[j].client_id = calls[k].client_id
        /\ calls[j].endpoint_type = calls[k].endpoint_type
        /\ calls[j].time > calls[k].time - limits[calls[k].endpoint_type].window}

\* C15: for every client and endpoint type the calls allowed within one
\* window are at most 'requests' of that type, and a call is denied only
\* when 'requests' calls of the client for that type were allowed within
\* the window
C15_RateLimitPerEndpointType ==
    \A k \in 1..Len(calls) :
        /\ Cardinality(AllowedInWindow(k))
               <= limits[calls[k].endpoint_type].requests
        /\ ~calls[k].allowed =>
               Cardinality(AllowedInWindow(k))
                   = limits[calls[k].endpoint_type].requests

LockedOutMsg == "Account locked due to too many failed attempts."

\* C17: a login submission is refused as locked only when its identifier
\* has had MAX_LOGIN_ATTEMPTS wrong-credential submissions, this one
\* included, since its last successful login
C17_LockoutOnlyAfterMaxAttempts ==
    [][(/\ AnsweredAtOnce
        /\ last'.req.route = "login"
        /\ last'.resp.msg = LockedOutMsg)
       => wrong'[last'.req.email] >= MAX_LOGIN_ATTEMPTS
      ]_vars

\* the account of an identifier is locked: its lockout key is present, or
\* the account_locked_until of its User row lies in the future
Locked(identifier) ==
    \/ redis.lockout[identifier] > now
    \/ /\ identifier \in DOMAIN users
       /\ users[identifier].account_locked_until > now

\* C18: no step makes a login succeed for an identifier whose account is
\* locked
C18_NoLoginWhileLocked ==
    [][\A p \in Procs :
          (/\ pc[p] = "login_check"
           /\ pc'[p] = "idle"
           /\ last'.resp.msg = "Login successful!")
          => ~Locked(req[p].email)
      ]_vars

\* this step handles a page request of the browser (answered in one step)
PageStep ==
    /\ nreq' = nreq
    /\ now' = now
    /\ pc' = pc
    /\ last'.req.route \in PageRoutes

\* C19: a page request that arrives more than SESSION_TIMEOUT_MINUTES after
\* the previous request of a session that carries a user_id, from the
\* fingerprint the session holds, is answered with the session-expired
\* redirect and the session is cleared
C19_IdleSessionRejected ==
    [][(/\ PageStep
        /\ session.user_id # NoUser
        /\ session.last_activity # NoTime
        /\ now - session.last_activity > SESSION_TIMEOUT_MINUTES
        /\ session.fingerprint = last'.req.fingerprint)
       => /\ last'.resp = SessionExpired
          /\ session' = NoSession
      ]_vars

\* C20: the page request that follows a successful login, within the
\* timeout and from the fingerprint of the login request, is served and
\* leaves the user authenticated
C20_RequestAfterLoginServed ==
    [][(/\ PageStep
        /\ last.req.route = "login"
        /\ last.resp.msg = "Login successful!"
        /\ last'.req.fingerprint = last.req.fingerprint
        /\ now - session.last_activity <= SESSION_TIMEOUT_MINUTES)
       => /\ last'.resp # SessionExpired
          /\ is_authenticated(session')
      ]_vars

\* this step completes a login of thread p: login_user has been called
LoginCompletes(p) ==
    /\ pc[p] = "login_check"
    /\ pc'[p] = "idle"
    /\ last'.resp.msg = "Login successful!"

\* C21: for a user with MFA enabled no step completes a login unless the
\* submission carries a code that verify_mfa_token accepts; the right
\* password alone, or with another code, does not log in
C21_MfaUserNeedsVerifiedCode ==
    [][\A p \in Procs :
          (/\ LoginCompletes(p)
           /\ req[p].email \in DOMAIN users
           /\ users[req[p].email].mfa_enabled)
          => req[p].mfa_token = "valid"
      ]_vars

\* a user with MFA enabled has logged in
C21_MfaUserLoggedIn ==
    /\ last.req.route = "login"
    /\ last.resp.msg = "Login successful!"
    /\ users["a@x.org"].mfa_enabled
    /\ is_authenticated(session)

\* the calls of verify_backup_code for one user and one code that returned
\* True
AcceptedBackupCode(user_id, backup_code) ==
    {k \in 1..Len(calls) :
        /\ calls[k].route = "verify_backup_code"
        /\ calls[k].user_id = user_id
        /\ calls[k].backup_code = backup_code
        /\ calls[k].result = TRUE}

\* C22: of the calls of verify_backup_code for one user and one code, in
\* sequence or interleaved, at most one returns True
C22_BackupCodeAcceptedOnce ==
    \A user_id \in UserIdInputs, backup_code \in BackupCodeInputs :
        Cardinality(AcceptedBackupCode(user_id, backup_code)) <= 1

\* the calls of verify_password_reset_token with one token that returned
\* an email
AcceptedResetToken(token) ==
    {k \in 1..Len(calls) :
        /\ calls[k].route = "verify_password_reset_token"
        /\ calls[k].token = token
        /\ calls[k].result # None}

\* C23: of the calls of verify_password_reset_token with one token, in
\* sequence or interleaved, at most one returns the email; the others
\* return None
C23_ResetTokenSingleUse ==
    \A token \in ResetTokenInputs :
        Cardinality(AcceptedResetToken(token)) <= 1

\* the calls of check_rate_limit for the identifier of call k that returned
\* True and were made in the RATE_WINDOW seconds that end with call k
PassedInWindow(k) ==
    {j \in 1..Len(calls) :
        /\ calls[j].route = "check_rate_limit"
        /\ calls[j].identifier = calls[k].identifier
        /\ calls[j].result = TRUE
        /\ calls[j].time > calls[k].time - RATE_WINDOW
        /\ calls[j].time <= calls[k].time}

\* C24: for every identifier the calls of check_rate_limit that return True
\* within any RATE_WINDOW seconds are at most RATE_LIMIT, also when calls
\* arrive in the same second or concurrently
C24_RateLimitHolds ==
    \A k \in 1..Len(calls) :
        calls[k].route = "check_rate_limit"
            => Cardinality(PassedInWindow(k)) <= RATE_LIMIT

\* the connections of the registry whose user is of one type
ConnectedOfType(user_type) ==
    Cardinality({sid \in DOMAIN realtime_service.connected_users :
        realtime_service.connected_users[sid].user_type = user_type})

\* C25: the counts the dashboard has got from get_connected_users_count
\* match the registry: 'patients', 'hospitals' and 'admins' are the numbers
\* of connections of patients, hospital users and administrators, and
\* they add up to 'total'
C25_CountsMatchRegistry ==
    last.req.route = "dashboard" =>
        LET counts == last.resp.connected_users
        IN  /\ counts.patients = ConnectedOfType("patient")
            /\ counts.hospitals = ConnectedOfType("hospital")
            /\ counts.admins = ConnectedOfType("admin")
            /\ counts.patients + counts.hospitals + counts.admins
                   = counts.total

====
